---- MODULE Spec2Model ----
(***************************************************************************)
(* Model of sshtunnel.py: the "run" command of main(), the process         *)
(* supervisor run(), the signal handler KillEventHandler._on_signal, the   *)
(* output pipes (LogPipe) and the registry lookup TunnelConfig.get_tunnels.*)
(*                                                                         *)
(* The main thread is a program counter `pc`; an exception in flight is    *)
(* `pending`.  A signal handler runs in the main thread between two        *)
(* steps and raises KeyboardInterrupt at the position the thread is at.    *)
(*                                                                         *)
(* The configuration side is modelled as well: the include recursion of    *)
(* _pre_process_file, the resolver _analyse_config, the validator          *)
(* _check_config with TunnelConfig.__init__, and Tunnel.__eq__/__ne__.     *)
(***************************************************************************)
EXTENDS Integers, Sequences, FiniteSets, TLC

\* ------------------------------------------------------------------ bounds
NumTunnels == 2          \* tunnels selected for the run
MaxExitCode == 1         \* helper exit codes are 0..MaxExitCode
MaxSignals == 3          \* interrupts delivered in one run of Spec
TicksPerSecond == 2      \* clock resolution of the model
MaxSigSeq == 4           \* interrupts delivered in SpecSignal
MaxRegistry == 2         \* tunnels in the registry of SpecLookup
NumIdents == 2           \* distinct identifier strings in SpecLookup
MaxIds == 2              \* identifiers requested in SpecLookup
MaxSections == 2         \* sections of a parsed configuration file
NumFiles == 2            \* configuration files that may include each other
RecursionLimit == 4      \* nested calls the interpreter allows (scaled)

\* --------------------------------------------------------------- constants
None == -1                              \* Python None (no exit code yet)
EVENT_COUNT == 3                        \* KillEventHandler.EVENT_COUNT
INTERVAL == 1 * TicksPerSecond          \* KillEventHandler.INTERVAL, 1 s

Tunnels == 1..NumTunnels
ExitCodes == 0..MaxExitCode
Times == 0..INTERVAL                    \* clock values of Spec
SigHorizon == 5 * TicksPerSecond        \* clock values of SpecSignal: 5 s
Pipes == {"out", "err"}

PreTryPcs == {"load_config", "check_args", "get_tunnels", "which"}
TryPcs == {"out_pipe", "err_pipe", "popen", "store", "poll"}
FinallyPcs == {"term", "wait", "wait_for", "kill", "close_err", "close_out"}

VARIABLES
    argAll,          \* --all given
    argTunnel,       \* at least one TUNNEL argument given
    pc,              \* position of the main thread
    pending,         \* exception in flight ("none" when there is none)
    errCode,         \* exit code named by RuntimeError("autossh stopped ...")
    exitCode,        \* exit code of the tool, None while it runs
    hardExit,        \* os._exit was called by the signal handler
    uncaught,        \* an exception left main() without being caught
    next,            \* index of the tunnel the launch loop is at
    proc,            \* local `proc`: Popen returned, not yet in proc_dict
    started,         \* helpers that exist (Popen succeeded)
    exitStatus,      \* exit status of each helper at the OS, None if running
    returncode,      \* Popen.returncode of each helper (set by poll())
    proc_dict,       \* tracked helpers
    cursor,          \* items the current for loop still has to visit
    termSent,        \* helpers that were sent SIGTERM
    killSent,        \* helpers that were sent SIGKILL
    pipe,            \* state of out_pipe / err_pipe
    closeCalls,      \* number of os.close(fdWrite) calls per pipe
    closedBySupervisor, \* pipes closed by run()'s finally block
    deadlinePassed,  \* the 30 s shutdown deadline has passed
    quit_msg,        \* KillEventHandler._quit_msg
    sigTimes,        \* history: time of every signal received
    lastOutcome,     \* history: what the handler did with the last signal
    shutdownStarted, \* history: the finally block of run() was entered
    shutdownTracked, \* history: proc_dict when the finally block was entered
    cause,           \* history: the exception that entered the finally block
    failure,         \* history: first exception that is not KeyboardInterrupt
    exitSeen,        \* history: helpers the polling loop observed exited
    all_tunnels,     \* registry (SpecLookup)
    ids,             \* requested identifiers (SpecLookup)
    result,          \* get_tunnels result (SpecLookup)
    not_found,       \* identifiers get_tunnels reports unknown (SpecLookup)
    lookupPc,        \* "idle" | "call" | "returned" | "raised"
    parser,          \* sections of the parsed configuration, in file order
    config,          \* tunnel_configs_by_group, the resolver's output
    cfgPc,           \* position of TunnelConfig._parse_config
    includes,        \* the files each file names in its include lines
    stack,           \* active calls of _pre_process_file, innermost last
    queue,           \* field sets _check_config has still to visit
    results,         \* local list `results` of _check_config
    self_tunnels,    \* TunnelConfig._tunnels (empty until __init__ sets it)
    rejected,        \* history: field sets that failed validation
    operands,        \* the two Tunnels being compared
    comparison,      \* outcome of a == b and of a != b
    launched,        \* command lines run() has built, in launch order
    connected        \* history: the address each helper connected to

supVars == <<argAll, argTunnel, pc, pending, errCode, exitCode, hardExit, uncaught, next,
             proc, started, exitStatus, returncode, proc_dict, cursor,
             termSent, killSent, pipe, closeCalls, closedBySupervisor,
             deadlinePassed, shutdownStarted, shutdownTracked, cause, failure, exitSeen>>
sigVars == <<quit_msg, sigTimes, lastOutcome>>
lookupVars == <<all_tunnels, ids, result, not_found, lookupPc>>
checkVars == <<queue, results, self_tunnels, rejected>>
cfgVars == <<parser, config, cfgPc, includes, stack, checkVars>>
eqVars == <<operands, comparison>>
launchVars == <<launched, connected>>
vars == <<supVars, sigVars, lookupVars, cfgVars, eqVars, launchVars>>

\* ------------------------------------------------------------ initial state
InitSupervisor ==
    /\ pc = "load_config"
    /\ pending = "none"
    /\ errCode = None
    /\ exitCode = None
    /\ hardExit = FALSE
    /\ uncaught = FALSE
    /\ next = 1
    /\ proc = 0
    /\ started = {}
    /\ exitStatus = [t \in Tunnels |-> None]
    /\ returncode = [t \in Tunnels |-> None]
    /\ proc_dict = {}
    /\ cursor = {}
    /\ termSent = {}
    /\ killSent = {}
    /\ pipe = [p \in Pipes |-> "none"]
    /\ closeCalls = [p \in Pipes |-> 0]
    /\ closedBySupervisor = {}
    /\ deadlinePassed = FALSE
    /\ shutdownStarted = FALSE
    /\ shutdownTracked = {}
    /\ cause = "none"
    /\ failure = "none"
    /\ exitSeen = {}

InitSignals ==
    /\ quit_msg = <<>>
    /\ sigTimes = <<>>
    /\ lastOutcome = "none"

InitLookupIdle ==
    /\ all_tunnels = <<>>
    /\ ids = <<>>
    /\ result = <<>>
    /\ not_found = <<>>
    /\ lookupPc = "idle"

\* No two Tunnels are being compared.
InitEqIdle ==
    /\ operands = <<>>
    /\ comparison = [eq |-> "none", ne |-> "none"]

\* run() has built no command line.
InitLaunchIdle ==
    /\ launched = <<>>
    /\ connected = <<>>

\* _check_config has not been called, no TunnelConfig exists.
InitCheckIdle ==
    /\ InitEqIdle
    /\ InitLaunchIdle
    /\ queue = <<>>
    /\ results = <<>>
    /\ self_tunnels = <<>>
    /\ rejected = <<>>

\* No configuration file is being loaded.
InitConfigIdle ==
    /\ InitCheckIdle
    /\ parser = <<>>
    /\ config = [error |-> "none", groups |-> <<>>, tunnels |-> <<>>]
    /\ cfgPc = "idle"
    /\ includes = <<>>
    /\ stack = <<>>

Init ==
    /\ argAll \in BOOLEAN
    /\ argTunnel \in BOOLEAN
    /\ InitSupervisor
    /\ InitSignals
    /\ InitLookupIdle
    /\ InitConfigIdle


\* ------------------------------------------------- exceptions in main thread
\* History of the first error raised, interrupts aside.
Failed(exc) ==
    failure' = IF failure = "none" /\ exc # "KeyboardInterrupt"
               THEN exc ELSE failure

\* try ... finally of run(): an exception raised in the try block enters the
\* finally block, whose first statement iterates over proc_dict.items().
EnterFinally(exc, tracked) ==
    /\ pc' = "term"
    /\ pending' = exc
    /\ cursor' = tracked
    /\ shutdownStarted' = TRUE
    /\ shutdownTracked' = tracked
    /\ cause' = exc
    /\ Failed(exc)

\* An exception raised outside the try block of run(), or inside its finally
\* block, leaves run() at once and reaches the except clauses of main().
LeaveRun(exc) ==
    /\ pc' = "main_end"
    /\ pending' = exc
    /\ Failed(exc)
    /\ UNCHANGED <<cursor, shutdownStarted, shutdownTracked, cause>>

\* Where an exception raised at the current position goes.
Raise(exc) ==
    IF pc \in TryPcs THEN EnterFinally(exc, proc_dict) ELSE LeaveRun(exc)

\* -------------------------------------------------------- main(), run command
\* conf = TunnelConfig(config_file), or the config file cannot be located
LoadConfig ==
    /\ pc = "load_config"
    /\ \E outcome \in {"ok", "ConfigError", "missing"} :
         CASE outcome = "ok" ->
                /\ pc' = "check_args"
                /\ UNCHANGED <<pending, exitCode, failure>>
           [] outcome = "ConfigError" ->
                /\ pc' = "main_end"
                /\ pending' = "ConfigError"
                /\ Failed("ConfigError")
                /\ UNCHANGED exitCode
           [] outcome = "missing" ->
                /\ pc' = "exited"
                /\ exitCode' = 1
                /\ UNCHANGED <<pending, failure>>
    /\ UNCHANGED <<argAll, argTunnel, errCode, hardExit, uncaught, next, proc, started,
                   exitStatus, returncode, proc_dict, cursor, termSent,
                   killSent, pipe, closeCalls, closedBySupervisor,
                   deadlinePassed, shutdownStarted, shutdownTracked, cause, exitSeen>>
    /\ UNCHANGED <<sigVars, lookupVars, cfgVars, eqVars, launchVars>>

\* The list handed to run(): args.TUNNEL, or [] after --all; "no_list" when
\* main() returns 1 before calling run().
ArgsTunnels(all, tunnel) ==
    IF tunnel
    THEN IF all THEN "no_list" ELSE "TUNNEL"
    ELSE IF ~all THEN "no_list"
         ELSE \* tunnels = [] ; if not tunnels: return 1
              "no_list"

CheckArgs ==
    /\ pc = "check_args"
    /\ IF ArgsTunnels(argAll, argTunnel) = "no_list"
       THEN /\ pc' = "exited"
            /\ exitCode' = 1
       ELSE /\ pc' = "get_tunnels"
            /\ UNCHANGED exitCode
    /\ UNCHANGED <<argAll, argTunnel, pending, errCode, hardExit, uncaught, next, proc,
                   started, exitStatus, returncode, proc_dict, cursor,
                   termSent, killSent, pipe, closeCalls, closedBySupervisor,
                   deadlinePassed, shutdownStarted, shutdownTracked, cause, failure, exitSeen>>
    /\ UNCHANGED <<sigVars, lookupVars, cfgVars, eqVars, launchVars>>

\* Variant: KeyboardInterrupt handled like any other error
ExitCodeForAbortFails(exc) == IF exc = "none" THEN 0 ELSE 1

\* except KeyboardInterrupt: return 0 / except ConfigError, StandardError:
\* return 1 / no exception: return 0
ExitCodeFor(exc) == IF exc \in {"none", "KeyboardInterrupt"} THEN 0 ELSE 1

MainEnd ==
    /\ pc = "main_end"
    /\ pc' = "exited"
    /\ exitCode' = ExitCodeFor(pending)
    /\ UNCHANGED <<argAll, argTunnel, pending, errCode, hardExit, uncaught, next, proc,
                   started, exitStatus, returncode, proc_dict, cursor,
                   termSent, killSent, pipe, closeCalls, closedBySupervisor,
                   deadlinePassed, shutdownStarted, shutdownTracked, cause, failure, exitSeen>>
    /\ UNCHANGED <<sigVars, lookupVars, cfgVars, eqVars, launchVars>>

\* ------------------------------------------------------- run(), before try
\* selected_tunnels = conf.get_tunnels(tunnel_identifiers)
RunGetTunnels ==
    /\ pc = "get_tunnels"
    /\ \E known \in BOOLEAN :
         IF known
         THEN /\ pc' = "which"
              /\ UNCHANGED <<pending, failure>>
         ELSE /\ pc' = "main_end"
              /\ pending' = "RuntimeError"
              /\ Failed("RuntimeError")
    /\ UNCHANGED <<argAll, argTunnel, errCode, exitCode, hardExit, uncaught, next, proc,
                   started, exitStatus, returncode, proc_dict, cursor,
                   termSent, killSent, pipe, closeCalls, closedBySupervisor,
                   deadlinePassed, shutdownStarted, shutdownTracked, cause, exitSeen>>
    /\ UNCHANGED <<sigVars, lookupVars, cfgVars, eqVars, launchVars>>

\* Variant: the helper is looked up inside the try block, after the pipes
WhichInsideTry ==
    /\ pc = "which"
    /\ \E found \in BOOLEAN :
         IF found
         THEN /\ pc' = "out_pipe"
              /\ UNCHANGED <<pending, failure, pipe, cursor, shutdownStarted,
                             shutdownTracked, cause>>
         ELSE /\ pipe' = [p \in Pipes |-> "open"]
              /\ EnterFinally("RuntimeError", proc_dict)
    /\ UNCHANGED <<argAll, argTunnel, errCode, exitCode, hardExit, uncaught, next, proc,
                   started, exitStatus, returncode, proc_dict, termSent,
                   killSent, closeCalls, closedBySupervisor,
                   deadlinePassed, exitSeen>>
    /\ UNCHANGED <<sigVars, lookupVars, cfgVars, eqVars, launchVars>>

\* autossh_path = which("autossh") ; proc_dict = {}
Which ==
    /\ pc = "which"
    /\ \E found \in BOOLEAN :
         IF found
         THEN /\ pc' = "out_pipe"
              /\ UNCHANGED <<pending, failure>>
         ELSE /\ pc' = "main_end"
              /\ pending' = "RuntimeError"
              /\ Failed("RuntimeError")
    /\ UNCHANGED <<argAll, argTunnel, errCode, exitCode, hardExit, uncaught, next, proc,
                   started, exitStatus, returncode, proc_dict, cursor,
                   termSent, killSent, pipe, closeCalls, closedBySupervisor,
                   deadlinePassed, shutdownStarted, shutdownTracked, cause, exitSeen>>
    /\ UNCHANGED <<sigVars, lookupVars, cfgVars, eqVars, launchVars>>


\* ------------------------------------------------------ run(), the try block
\* out_pipe = LogPipe(logging.INFO, log)
OutPipe ==
    /\ pc = "out_pipe"
    /\ pipe' = [pipe EXCEPT !["out"] = "open"]
    /\ pc' = "err_pipe"
    /\ UNCHANGED <<argAll, argTunnel, pending, errCode, exitCode, hardExit, uncaught,
                   next, proc, started, exitStatus, returncode, proc_dict,
                   cursor, termSent, killSent, closeCalls, closedBySupervisor,
                   deadlinePassed, shutdownStarted, shutdownTracked, cause, failure, exitSeen>>
    /\ UNCHANGED <<sigVars, lookupVars, cfgVars, eqVars, launchVars>>

\* err_pipe = LogPipe(logging.WARNING, log)
ErrPipe ==
    /\ pc = "err_pipe"
    /\ pipe' = [pipe EXCEPT !["err"] = "open"]
    /\ pc' = "popen"
    /\ UNCHANGED <<argAll, argTunnel, pending, errCode, exitCode, hardExit, uncaught,
                   next, proc, started, exitStatus, returncode, proc_dict,
                   cursor, termSent, killSent, closeCalls, closedBySupervisor,
                   deadlinePassed, shutdownStarted, shutdownTracked, cause, failure, exitSeen>>
    /\ UNCHANGED <<sigVars, lookupVars, cfgVars, eqVars, launchVars>>

\* proc = subprocess.Popen(cmd, stdout=out_pipe, stderr=err_pipe)
\* The helper exists from here on; Popen may also fail with OSError.
Popen ==
    /\ pc = "popen"
    /\ \E ok \in BOOLEAN :
         IF ok
         THEN /\ started' = started \cup {next}
              /\ proc' = next
              /\ pc' = "store"
              /\ UNCHANGED <<pending, cursor, shutdownStarted, shutdownTracked, cause, failure>>
         ELSE /\ Raise("OSError")
              /\ UNCHANGED <<started, proc>>
    /\ UNCHANGED <<argAll, argTunnel, errCode, exitCode, hardExit, uncaught, next,
                   exitStatus, returncode, proc_dict, termSent, killSent, pipe,
                   closeCalls, closedBySupervisor, deadlinePassed, exitSeen>>
    /\ UNCHANGED <<sigVars, lookupVars, cfgVars, eqVars, launchVars>>

\* proc_dict[proc.pid] = proc ; next tunnel, or the first pass of the main
\* loop: for pid, proc in proc_dict.items()
Store ==
    /\ pc = "store"
    /\ proc_dict' = proc_dict \cup {proc}
    /\ proc' = 0
    /\ next' = next + 1
    /\ IF next < NumTunnels
       THEN /\ pc' = "popen"
            /\ UNCHANGED cursor
       ELSE /\ pc' = "poll"
            /\ cursor' = proc_dict'
    /\ UNCHANGED <<argAll, argTunnel, pending, errCode, exitCode, hardExit, uncaught,
                   started, exitStatus, returncode, termSent, killSent, pipe,
                   closeCalls, closedBySupervisor, deadlinePassed,
                   shutdownStarted, shutdownTracked, cause, failure, exitSeen>>
    /\ UNCHANGED <<sigVars, lookupVars, cfgVars, eqVars, launchVars>>

\* wait_proc(proc, timeout): the exit code, or None if still running
wait_proc(t) == IF returncode[t] # None THEN returncode[t] ELSE exitStatus[t]

\* Variant: an exit with code 0 is not an error (`if not return_code: continue`)
PollRaisesNonZero(return_code) == return_code # None /\ return_code # 0

\* Main loop: `if return_code is None: continue / else: del ...; raise`
PollRaises(return_code) == return_code # None

\* Variant: a helper seen exited is started again instead of ending run()
PollRestarts(t) ==
    /\ pc = "poll"
    /\ t \in cursor
    /\ returncode' = [returncode EXCEPT ![t] = wait_proc(t)]
    /\ IF PollRaises(wait_proc(t))
       THEN /\ proc_dict' = proc_dict \ {t}
            /\ exitSeen' = exitSeen \cup {t}
            /\ pc' = "popen"
            /\ next' = NumTunnels
            /\ UNCHANGED <<pending, errCode, cursor, shutdownStarted,
                           shutdownTracked, cause, failure>>
       ELSE /\ cursor' = IF cursor \ {t} = {} THEN proc_dict ELSE cursor \ {t}
            /\ exitSeen' = IF wait_proc(t) # None
                           THEN exitSeen \cup {t} ELSE exitSeen
            /\ UNCHANGED <<pc, pending, errCode, proc_dict, shutdownStarted,
                           shutdownTracked, cause, failure, next>>
    /\ UNCHANGED <<argAll, argTunnel, exitCode, hardExit, uncaught, proc, started,
                   exitStatus, termSent, killSent, pipe, closeCalls,
                   closedBySupervisor, deadlinePassed>>
    /\ UNCHANGED <<sigVars, lookupVars, cfgVars, eqVars, launchVars>>

\* One liveness check of the main loop.
Poll(t) ==
    /\ pc = "poll"
    /\ t \in cursor
    /\ returncode' = [returncode EXCEPT ![t] = wait_proc(t)]
    /\ IF PollRaises(wait_proc(t))
       THEN /\ proc_dict' = proc_dict \ {t}
            /\ exitSeen' = exitSeen \cup {t}
            /\ errCode' = wait_proc(t)
            /\ EnterFinally("RuntimeError", proc_dict')
       ELSE /\ cursor' = IF cursor \ {t} = {} THEN proc_dict ELSE cursor \ {t}
            /\ exitSeen' = IF wait_proc(t) # None
                           THEN exitSeen \cup {t} ELSE exitSeen
            /\ UNCHANGED <<pc, pending, errCode, proc_dict, shutdownStarted,
                           shutdownTracked, cause, failure>>
    /\ UNCHANGED <<argAll, argTunnel, exitCode, hardExit, uncaught, next, proc, started,
                   exitStatus, termSent, killSent, pipe, closeCalls,
                   closedBySupervisor, deadlinePassed>>
    /\ UNCHANGED <<sigVars, lookupVars, cfgVars, eqVars, launchVars>>

\* -------------------------------------------------- run(), the finally block
\* Variant: each process is killed right after it was sent SIGTERM
TermThenKill(t) ==
    /\ pc = "term"
    /\ t \in cursor
    /\ termSent' = termSent \cup {t}
    /\ killSent' = killSent \cup {t}
    /\ cursor' = cursor \ {t}

\* proc.send_signal(signal.SIGTERM), errors swallowed
Term(t) ==
    /\ pc = "term"
    /\ t \in cursor
    /\ termSent' = termSent \cup {t}
    /\ cursor' = cursor \ {t}
    /\ UNCHANGED killSent

\* for pid, proc in proc_dict.items(): send SIGTERM ; then the deadline is set
TermLoop ==
    /\ pc = "term"
    /\ IF cursor # {}
       THEN /\ \E t \in cursor : Term(t)
            /\ UNCHANGED <<pc, deadlinePassed>>
       ELSE /\ pc' = "wait"
            /\ deadlinePassed' = FALSE
            /\ UNCHANGED <<cursor, termSent, killSent>>
    /\ UNCHANGED <<argAll, argTunnel, pending, errCode, exitCode, hardExit, uncaught,
                   next, proc, started, exitStatus, returncode, proc_dict,
                   pipe, closeCalls, closedBySupervisor, shutdownStarted,
                   shutdownTracked, cause, failure, exitSeen>>
    /\ UNCHANGED <<sigVars, lookupVars, cfgVars, eqVars, launchVars>>

\* Variant: after the wait, the kill loop visits every helper that was
\* tracked when the finally block began
WaitCondKillsAll ==
    /\ pc = "wait"
    /\ IF ~deadlinePassed /\ proc_dict # {}
       THEN /\ pc' = "wait_for"
            /\ cursor' = proc_dict
       ELSE /\ pc' = "kill"
            /\ cursor' = shutdownTracked
    /\ UNCHANGED <<argAll, argTunnel, pending, errCode, exitCode, hardExit, uncaught,
                   next, proc, started, exitStatus, returncode, proc_dict,
                   termSent, killSent, pipe, closeCalls, closedBySupervisor,
                   deadlinePassed, shutdownStarted, shutdownTracked, cause, failure, exitSeen>>
    /\ UNCHANGED <<sigVars, lookupVars, cfgVars, eqVars, launchVars>>

\* while timeout > datetime.datetime.utcnow() and proc_dict:
WaitCond ==
    /\ pc = "wait"
    /\ IF ~deadlinePassed /\ proc_dict # {}
       THEN pc' = "wait_for"
       ELSE pc' = "kill"
    /\ cursor' = proc_dict
    /\ UNCHANGED <<argAll, argTunnel, pending, errCode, exitCode, hardExit, uncaught,
                   next, proc, started, exitStatus, returncode, proc_dict,
                   termSent, killSent, pipe, closeCalls, closedBySupervisor,
                   deadlinePassed, shutdownStarted, shutdownTracked, cause, failure, exitSeen>>
    /\ UNCHANGED <<sigVars, lookupVars, cfgVars, eqVars, launchVars>>

\* for pid, proc in proc_dict.items():
\*     if wait_proc(proc, timeout=0.1) is not None: del proc_dict[pid]; break
WaitFor(t) ==
    /\ pc = "wait_for"
    /\ t \in cursor
    /\ returncode' = [returncode EXCEPT ![t] = wait_proc(t)]
    /\ IF wait_proc(t) # None
       THEN /\ proc_dict' = proc_dict \ {t}
            /\ pc' = "wait"
            /\ cursor' = {}
       ELSE /\ cursor' = cursor \ {t}
            /\ pc' = IF cursor' = {} THEN "wait" ELSE "wait_for"
            /\ UNCHANGED proc_dict
    /\ UNCHANGED <<argAll, argTunnel, pending, errCode, exitCode, hardExit, uncaught,
                   next, proc, started, exitStatus, termSent, killSent, pipe,
                   closeCalls, closedBySupervisor, deadlinePassed,
                   shutdownStarted, shutdownTracked, cause, failure, exitSeen>>
    /\ UNCHANGED <<sigVars, lookupVars, cfgVars, eqVars, launchVars>>

\* The clock passes the deadline set 30 s after the SIGTERM loop.
DeadlineExpires ==
    /\ pc \in {"wait", "wait_for"}
    /\ ~deadlinePassed
    /\ deadlinePassed' = TRUE
    /\ UNCHANGED <<argAll, argTunnel, pc, pending, errCode, exitCode, hardExit, uncaught,
                   next, proc, started, exitStatus, returncode, proc_dict,
                   cursor, termSent, killSent, pipe, closeCalls,
                   closedBySupervisor, shutdownStarted, shutdownTracked, cause, failure,
                   exitSeen>>
    /\ UNCHANGED <<sigVars, lookupVars, cfgVars, eqVars, launchVars>>

\* os.kill(pid, signal.SIGKILL), errors swallowed
Kill(t) ==
    /\ pc = "kill"
    /\ t \in cursor
    /\ killSent' = killSent \cup {t}
    /\ cursor' = cursor \ {t}

\* for pid, proc in proc_dict.items(): send SIGKILL
KillLoop ==
    /\ pc = "kill"
    /\ IF cursor # {}
       THEN /\ \E t \in cursor : Kill(t)
            /\ UNCHANGED pc
       ELSE /\ pc' = "close_err"
            /\ UNCHANGED <<cursor, killSent>>
    /\ UNCHANGED <<argAll, argTunnel, pending, errCode, exitCode, hardExit, uncaught,
                   next, proc, started, exitStatus, returncode, proc_dict,
                   termSent, pipe, closeCalls, closedBySupervisor,
                   deadlinePassed, shutdownStarted, shutdownTracked, cause, failure, exitSeen>>
    /\ UNCHANGED <<sigVars, lookupVars, cfgVars, eqVars, launchVars>>

\* LogPipe.close(): os.close(self.fdWrite)
LogPipeClose(p) ==
    /\ closeCalls' = [closeCalls EXCEPT ![p] = @ + 1]
    /\ pipe' = [pipe EXCEPT ![p] = "closed"]

\* if err_pipe is not None: err_pipe.close()
CloseErr ==
    /\ pc = "close_err"
    /\ IF pipe["err"] # "none"
       THEN /\ LogPipeClose("err")
            /\ closedBySupervisor' = closedBySupervisor \cup {"err"}
       ELSE UNCHANGED <<pipe, closeCalls, closedBySupervisor>>
    /\ pc' = "close_out"
    /\ UNCHANGED <<argAll, argTunnel, pending, errCode, exitCode, hardExit, uncaught,
                   next, proc, started, exitStatus, returncode, proc_dict,
                   cursor, termSent, killSent, deadlinePassed,
                   shutdownStarted, shutdownTracked, cause, failure, exitSeen>>
    /\ UNCHANGED <<sigVars, lookupVars, cfgVars, eqVars, launchVars>>

\* if out_pipe is not None: out_pipe.close() ; the exception in flight is
\* re-raised at the end of the finally block
CloseOut ==
    /\ pc = "close_out"
    /\ IF pipe["out"] # "none"
       THEN /\ LogPipeClose("out")
            /\ closedBySupervisor' = closedBySupervisor \cup {"out"}
       ELSE UNCHANGED <<pipe, closeCalls, closedBySupervisor>>
    /\ pc' = "main_end"
    /\ UNCHANGED <<argAll, argTunnel, pending, errCode, exitCode, hardExit, uncaught,
                   next, proc, started, exitStatus, returncode, proc_dict,
                   cursor, termSent, killSent, deadlinePassed,
                   shutdownStarted, shutdownTracked, cause, failure, exitSeen>>
    /\ UNCHANGED <<sigVars, lookupVars, cfgVars, eqVars, launchVars>>

\* LogPipe.__del__ -> stop() -> close(): runs when the pipe object is
\* collected, which needs its reader thread to have ended (write end closed)
\* and main() to have returned.
LogPipeDel(p) ==
    /\ pc = "exited"
    /\ ~hardExit
    /\ pipe[p] = "closed"
    /\ closeCalls' = [closeCalls EXCEPT ![p] = @ + 1]
    /\ pipe' = [pipe EXCEPT ![p] = "deleted"]
    /\ UNCHANGED <<argAll, argTunnel, pc, pending, errCode, exitCode, hardExit, uncaught,
                   next, proc, started, exitStatus, returncode, proc_dict,
                   cursor, termSent, killSent, closedBySupervisor,
                   deadlinePassed, shutdownStarted, shutdownTracked, cause, failure, exitSeen>>
    /\ UNCHANGED <<sigVars, lookupVars, cfgVars, eqVars, launchVars>>

\* ------------------------------------------------------------- environment
\* A running helper exits with some code (on its own or after a signal).
HelperExit(t, code) ==
    /\ pc # "exited"
    /\ t \in started
    /\ exitStatus[t] = None
    /\ exitStatus' = [exitStatus EXCEPT ![t] = code]
    /\ UNCHANGED <<argAll, argTunnel, pc, pending, errCode, exitCode, hardExit, uncaught,
                   next, proc, started, returncode, proc_dict, cursor,
                   termSent, killSent, pipe, closeCalls, closedBySupervisor,
                   deadlinePassed, shutdownStarted, shutdownTracked, cause, failure, exitSeen>>
    /\ UNCHANGED <<sigVars, lookupVars, cfgVars, eqVars, launchVars>>


\* ----------------------------------------------- KillEventHandler._on_signal
\* _quit_msg.append(utcnow()) ; keep the last EVENT_COUNT entries
Recorded(q, now) ==
    LET a == Append(q, now)
    IN  IF Len(a) > EVENT_COUNT
        THEN SubSeq(a, Len(a) - EVENT_COUNT + 1, Len(a))
        ELSE a

\* Variant: `<=` instead of `<`
HardExitDueInclusive(q) ==
    /\ Len(q) >= EVENT_COUNT
    /\ q[Len(q)] - q[1] <= INTERVAL

\* len(_quit_msg) >= EVENT_COUNT and _quit_msg[-1] - _quit_msg[0] < INTERVAL
HardExitDue(q) ==
    /\ Len(q) >= EVENT_COUNT
    /\ q[Len(q)] - q[1] < INTERVAL

\* What the handler does with the signal it has just recorded.
SignalOutcome(q) == IF HardExitDue(q) THEN "os._exit" ELSE "KeyboardInterrupt"

\* The clock does not run backwards between two signals.
ClockOk(now) ==
    IF sigTimes = <<>> THEN TRUE ELSE now >= sigTimes[Len(sigTimes)]

\* The handler's own state: the timestamps and what it decided.
OnSignal(now) ==
    /\ quit_msg' = Recorded(quit_msg, now)
    /\ sigTimes' = Append(sigTimes, now)
    /\ lastOutcome' = SignalOutcome(Recorded(quit_msg, now))

\* A SIGINT/SIGTERM reaches the tool after main() has entered its try block:
\* os._exit(1), or KeyboardInterrupt raised where the main thread is.  Raised
\* inside an except clause of main() it leaves main() uncaught, and the
\* interpreter ends with status 1.
Signal(now) ==
    /\ pc \in PreTryPcs \cup TryPcs \cup FinallyPcs \cup {"main_end"}
    /\ Len(sigTimes) < MaxSignals
    /\ ClockOk(now)
    /\ OnSignal(now)
    /\ IF SignalOutcome(Recorded(quit_msg, now)) = "os._exit"
       THEN /\ pc' = "exited"
            /\ exitCode' = 1
            /\ hardExit' = TRUE
            /\ UNCHANGED <<pending, cursor, shutdownStarted, shutdownTracked,
                           cause, failure, uncaught>>
       ELSE IF pc = "main_end"
       THEN /\ pc' = "exited"
            /\ exitCode' = 1
            /\ pending' = "KeyboardInterrupt"
            /\ uncaught' = TRUE
            /\ UNCHANGED <<hardExit, cursor, shutdownStarted, shutdownTracked,
                           cause, failure>>
       ELSE /\ Raise("KeyboardInterrupt")
            /\ UNCHANGED <<exitCode, hardExit, uncaught>>
    /\ UNCHANGED <<argAll, argTunnel, errCode, next, proc, started,
                   exitStatus, returncode, proc_dict, termSent, killSent, pipe,
                   closeCalls, closedBySupervisor, deadlinePassed, exitSeen>>
    /\ UNCHANGED <<lookupVars, cfgVars, eqVars, launchVars>>

\* ------------------------------------------------ TunnelConfig.get_tunnels
Idents == 1..NumIdents
TunnelRecords ==
    [name : Idents, group_name : Idents, remote_server : Idents,
     remote_address : Idents]

SeqsUpTo(S, n) == UNION {[1..k -> S] : k \in 0..n}
Range(q) == {q[i] : i \in 1..Len(q)}

\* A lookup that never tries the resolved address.
FoundForNoAddress(tunnel, tunnel_identifiers) ==
    IF tunnel.name \in Range(tunnel_identifiers)
    THEN {tunnel.name}
    ELSE IF tunnel.group_name \in Range(tunnel_identifiers)
    THEN {tunnel.group_name}
    ELSE IF tunnel.remote_server \in Range(tunnel_identifiers)
    THEN {tunnel.remote_server}
    ELSE {}

\* The if/elif chain of the loop body: the identifier added to
\* found_identifiers for this tunnel, if the tunnel is selected at all.
FoundFor(tunnel, tunnel_identifiers) ==
    IF tunnel.name \in Range(tunnel_identifiers)
    THEN {tunnel.name}
    ELSE IF tunnel.group_name \in Range(tunnel_identifiers)
    THEN {tunnel.group_name}
    ELSE IF tunnel.remote_server \in Range(tunnel_identifiers)
    THEN {tunnel.remote_server}
    ELSE IF tunnel.remote_address \in Range(tunnel_identifiers)
    THEN {tunnel.remote_address}
    ELSE {}

\* found_identifiers after the loop over self._tunnels
FoundIdentifiers(tunnels, tunnel_identifiers) ==
    UNION {FoundFor(tunnels[i], tunnel_identifiers) : i \in 1..Len(tunnels)}

\* Variant: one pass over the registry for each identifier, appending what
\* that identifier matches
SelectedPerIdentifier(tunnels, tunnel_identifiers) ==
    LET hits(identifier) ==
            LET hit(tunnel) ==
                    identifier \in {tunnel.name, tunnel.group_name,
                                    tunnel.remote_server, tunnel.remote_address}
            IN  SelectSeq(tunnels, hit)
        upto[n \in 0..Len(tunnel_identifiers)] ==
            IF n = 0 THEN <<>>
            ELSE upto[n - 1] \o hits(tunnel_identifiers[n])
    IN  upto[Len(tunnel_identifiers)]

\* result after the loop: the selected tunnels, in registry order
Selected(tunnels, tunnel_identifiers) ==
    LET hit(tunnel) == FoundFor(tunnel, tunnel_identifiers) # {}
    IN  SelectSeq(tunnels, hit)

\* not_found_identifiers
NotFound(tunnels, tunnel_identifiers) ==
    LET missing(identifier) ==
            identifier \notin FoundIdentifiers(tunnels, tunnel_identifiers)
    IN  SelectSeq(tunnel_identifiers, missing)

\* get_tunnels(tunnel_identifiers): raise RuntimeError("Unknown tunnels: ...")
\* or return result
GetTunnels ==
    /\ lookupPc = "call"
    /\ not_found' = NotFound(all_tunnels, ids)
    /\ IF not_found' # <<>>
       THEN /\ lookupPc' = "raised"
            /\ UNCHANGED result
       ELSE /\ lookupPc' = "returned"
            /\ result' = Selected(all_tunnels, ids)
    /\ UNCHANGED <<all_tunnels, ids>>
    /\ UNCHANGED <<supVars, sigVars, cfgVars, eqVars, launchVars>>

InitLookup ==
    /\ argAll = FALSE
    /\ argTunnel = TRUE
    /\ InitSupervisor
    /\ InitSignals
    /\ all_tunnels \in SeqsUpTo(TunnelRecords, MaxRegistry)
    /\ ids \in SeqsUpTo(Idents, MaxIds)
    /\ result = <<>>
    /\ not_found = <<>>
    /\ lookupPc = "call"
    /\ InitConfigIdle

NextLookup == GetTunnels

SpecLookup == InitLookup /\ [][NextLookup]_vars

\* ------------------------------------------- TunnelConfig._analyse_config
\* A string is a sequence of tokens: a token is "/" or a run of characters
\* without "/".  A parsed section is its name and its options, a dict from
\* option name to string; parser.sections() never repeats a name.
Slash == "/"
Str(atom) == <<atom>>

\* "/".join(parts)
RECURSIVE Join(_)
Join(parts) ==
    IF parts = <<>> THEN <<>>
    ELSE IF Len(parts) = 1 THEN Head(parts)
    ELSE Head(parts) \o <<Slash>> \o Join(Tail(parts))

\* "/" in s
HasSlash(s) == \E i \in 1..Len(s) : s[i] = Slash

\* s.split("/", maxsplit): cut at the first maxsplit separators
RECURSIVE Split(_, _)
Split(s, maxsplit) ==
    IF maxsplit = 0 \/ ~HasSlash(s)
    THEN <<s>>
    ELSE LET i == CHOOSE j \in 1..Len(s) :
                      s[j] = Slash /\ \A h \in 1..(j - 1) : s[h] # Slash
         IN  <<SubSeq(s, 1, i - 1)>>
                 \o Split(SubSeq(s, i + 1, Len(s)), maxsplit - 1)

EmptyDict == [k \in {} |-> <<>>]

\* d[key] = val
Put(d, key, val) ==
    [k \in DOMAIN d \cup {key} |-> IF k = key THEN val ELSE d[k]]

\* for key in parser.options(section): d[key] = parser.get(section, key)
Update(d, options) ==
    [k \in DOMAIN d \cup DOMAIN options |->
        IF k \in DOMAIN options THEN options[k] ELSE d[k]]

\* section in ("global", "common")
IsCommon(section) == section \in {Str("global"), Str("common")}

\* First pass: common_fields
RECURSIVE CommonFields(_, _)
CommonFields(sections, common_fields) ==
    IF sections = <<>>
    THEN common_fields
    ELSE LET section == Head(sections)
         IN  CommonFields(Tail(sections),
                 IF IsCommon(section.name)
                 THEN Update(common_fields, section.options)
                 ELSE common_fields)

\* Second pass: group_fields, a dict kept with its insertion order
RECURSIVE GroupFields(_, _, _)
GroupFields(sections, common_fields, group_fields) ==
    IF sections = <<>>
    THEN group_fields
    ELSE LET section == Head(sections)
             group == section.name
             known == group \in DOMAIN group_fields.fields
             fields == IF known THEN group_fields.fields[group]
                       ELSE common_fields
             after ==
                 [groups |-> IF known THEN group_fields.groups
                             ELSE Append(group_fields.groups, group),
                  fields |-> Put(group_fields.fields, group,
                                 Update(fields, section.options))]
         IN  GroupFields(Tail(sections), common_fields,
                 IF IsCommon(section.name) \/ HasSlash(section.name)
                 THEN group_fields
                 ELSE after)

\* Third pass: one field set per "group/tunnel" section.  Unpacking the
\* split into (group, tunnel_name) raises ValueError unless it has two parts.
RECURSIVE TunnelConfigs(_, _, _)
TunnelConfigs(sections, group_fields, by_group) ==
    IF sections = <<>> \/ by_group.error # "none"
    THEN by_group
    ELSE LET section == Head(sections)
             parts == Split(section.name, 2)
             group == parts[1]
             tunnel_name == parts[2]
             fields == IF group \in DOMAIN group_fields.fields
                       THEN group_fields.fields[group]
                       ELSE EmptyDict
             named == Put(fields, "tunnel_name", tunnel_name)
             known == group \in DOMAIN by_group.tunnels
             after ==
                 [error |-> "none",
                  groups |-> IF known THEN by_group.groups
                             ELSE Append(by_group.groups, group),
                  tunnels |-> Put(by_group.tunnels, group,
                                  Append(IF known THEN by_group.tunnels[group]
                                         ELSE <<>>,
                                         Update(named, section.options)))]
         IN  IF IsCommon(section.name) \/ ~HasSlash(section.name)
             THEN TunnelConfigs(Tail(sections), group_fields, by_group)
             ELSE IF Len(parts) # 2
             THEN [by_group EXCEPT !.error = "ValueError"]
             ELSE TunnelConfigs(Tail(sections), group_fields, after)

\* A default tunnel is synthesized for every group with fields.
SkipsDefaultWhenEmpty(group, fields, by_group) == DOMAIN fields = {}

\* if group in tunnel_configs_by_group.keys() or len(fields.keys()) == 0:
\*     continue
SkipsDefault(group, fields, by_group) ==
    group \in DOMAIN by_group.tunnels \/ DOMAIN fields = {}

\* Fourth pass: a default tunnel for every group left without tunnel
\* (groups is what is left to visit of group_fields.items())
RECURSIVE DefaultTunnels(_, _, _)
DefaultTunnels(groups, group_fields, by_group) ==
    IF groups = <<>>
    THEN by_group
    ELSE LET group == Head(groups)
             fields == group_fields.fields[group]
             default_tunnel_fields ==
                 Put(fields, "tunnel_name", Str("default_tunnel"))
         IN  DefaultTunnels(Tail(groups), group_fields,
                 IF SkipsDefault(group, fields, by_group)
                 THEN by_group
                 ELSE [by_group EXCEPT
                          !.groups = Append(@, group),
                          !.tunnels = Put(@, group,
                                          <<default_tunnel_fields>>)])

NoGroups == [groups |-> <<>>, fields |-> EmptyDict]
NoTunnels == [error |-> "none", groups |-> <<>>, tunnels |-> EmptyDict]

\* Variant: only the common sections at the head of the file are layered
\* under the groups.
GroupFieldsOfLeadingCommon(sections) ==
    LET leading == {n \in 0..Len(sections) :
                       \A h \in 1..n : IsCommon(sections[h].name)}
        last == CHOOSE n \in leading : \A m \in leading : m <= n
    IN  GroupFields(sections,
                    CommonFields(SubSeq(sections, 1, last), EmptyDict),
                    NoGroups)

\* group_fields of a parsed file
GroupFieldsOf(sections) ==
    GroupFields(sections, CommonFields(sections, EmptyDict), NoGroups)

\* _analyse_config(parser): tunnel_configs_by_group, or the ValueError
AnalyseConfig(sections) ==
    LET group_fields == GroupFieldsOf(sections)
        by_group == TunnelConfigs(sections, group_fields, NoTunnels)
    IN  IF by_group.error # "none"
        THEN by_group
        ELSE DefaultTunnels(group_fields.groups, group_fields, by_group)

\* _parse_config without its second except clause.
ReraisedAsIs(exc) == exc

\* _parse_config: except ConfigError: raise; except StandardError as e:
\* raise ConfigError(...)
Reraised(exc) == IF exc = "ConfigError" THEN exc ELSE "ConfigError"

\* _parse_config: config = _analyse_config(parser)
Analyse ==
    /\ cfgPc = "parsed"
    /\ config' = AnalyseConfig(parser)
    /\ cfgPc' = IF config'.error = "none" THEN "analysed"
                ELSE Reraised(config'.error)
    /\ UNCHANGED <<parser, includes, stack, checkVars>>
    /\ UNCHANGED <<supVars, sigVars, lookupVars, eqVars, launchVars>>

\* Inputs of the resolver: sections named after the common sections or a
\* group, alone or followed by "/t", by "/" and nothing, or by "/t/u", each
\* setting any of two options.
OptionMaps(keys, values) == UNION {[D -> values] : D \in SUBSET keys}
DistinctNames(sections) ==
    \A i, j \in 1..Len(sections) :
        sections[i].name = sections[j].name => i = j
IsSectionList(sections, names, options) ==
    /\ \E n \in 0..MaxSections :
          sections \in [1..n -> [name : names, options : options]]
    /\ DistinctNames(sections)

ResolveNames ==
    {Join(<<Str(first)>> \o rest) :
        first \in {"common", "global", "g"},
        rest \in {<<>>, <<Str("t")>>, <<<<>>>>, <<Str("t"), Str("u")>>}}
ResolveOptions == OptionMaps({"j", "k"}, {Str("a"), Str("b")})

InitResolve ==
    /\ argAll = FALSE
    /\ argTunnel = TRUE
    /\ InitSupervisor
    /\ InitSignals
    /\ InitLookupIdle
    /\ IsSectionList(parser, ResolveNames, ResolveOptions)
    /\ config = NoTunnels
    /\ cfgPc = "parsed"
    /\ includes = <<>>
    /\ stack = <<>>
    /\ InitCheckIdle

NextResolve == Analyse

SpecResolve == InitResolve /\ [][NextResolve]_vars

\* --------------------------------------------- TunnelConfig._check_config
\* int(val) for the numerals the model writes in a file
Numeral ==
    ("-1" :> -1) @@ ("0" :> 0) @@ ("1" :> 1) @@ ("5" :> 5) @@ ("10" :> 10) @@ ("22" :> 22)
        @@ ("127" :> 127) @@ ("65534" :> 65534) @@ ("65535" :> 65535)

\* ll_int(val): int(val) does not raise ValueError
ll_int(val) == Len(val) = 1 /\ val[1] \in DOMAIN Numeral

\* int(val)
int(val) == Numeral[val[1]]

\* to_str(val) of an integer
to_str(val) == <<CHOOSE numeral \in DOMAIN Numeral : Numeral[numeral] = val>>

\* A range test that lets 65535 through.
PortOutOfRangeInclusive(val) == 0 >= val \/ val > 65535

\* if 0 >= val or val > 65534: raise ConfigError
PortOutOfRange(val) == 0 >= val \/ val > 65534

Dot == "."

\* ".".join(parts)
RECURSIVE Dotted(_)
Dotted(parts) ==
    IF Len(parts) = 1 THEN Head(parts)
    ELSE Head(parts) \o <<Dot>> \o Dotted(Tail(parts))

\* val.split("."): the parts between the dots
RECURSIVE SplitDots(_)
SplitDots(val) ==
    IF ~\E i \in 1..Len(val) : val[i] = Dot
    THEN <<val>>
    ELSE LET i == CHOOSE j \in 1..Len(val) :
                      val[j] = Dot /\ \A h \in 1..(j - 1) : val[h] # Dot
         IN  <<SubSeq(val, 1, i - 1)>>
                 \o SplitDots(SubSeq(val, i + 1, Len(val)))

\* socket.inet_aton(val): one to four numbers separated by dots, the last
\* one filling all the bytes that remain ("127.1" is 127.0.0.1 and "127" is
\* 0.0.0.127); socket.error for anything else
inet_aton(val) ==
    LET parts == SplitDots(val)
        n == Len(parts)
        numeric == \A i \in 1..n : ll_int(parts[i]) /\ int(parts[i]) >= 0
        fits == \A i \in 1..n :
                    IF i < n THEN int(parts[i]) < 256
                    ELSE int(parts[i]) \div 256 < 256 ^ (4 - n)
        last == int(parts[n])
        bytes == [i \in 1..4 |->
                     IF i < n THEN int(parts[i])
                     ELSE (last \div (256 ^ (4 - i))) % 256]
    IN  IF n > 4 \/ ~numeric \/ ~fits
        THEN [error |-> "socket.error", bytes |-> <<>>]
        ELSE [error |-> "none", bytes |-> bytes]

\* The answers of the resolver for the host names given as local address
Hosts ==
    (Str("localhost") :> Dotted(<<Str("127"), Str("0"), Str("0"), Str("1")>>))
        @@ (Str("lan") :> Dotted(<<Str("10"), Str("0"), Str("0"), Str("1")>>))

\* socket.gethostbyname(val) for a local address
gethostbyname(val) ==
    IF val \in DOMAIN Hosts
    THEN [error |-> "none", val |-> Hosts[val]]
    ELSE [error |-> "socket.gaierror", val |-> val]

\* The local_address branch: the literal as written, or the address its
\* name resolves to, accepted when its first dotted part is the number 127
LocalAddress(val) ==
    LET address == IF inet_aton(val).error = "none"
                   THEN [error |-> "none", val |-> val]
                   ELSE gethostbyname(val)
        first == Head(SplitDots(address.val))
    IN  IF address.error # "none"
        THEN [error |-> "ConfigError", val |-> val]
        ELSE IF ~ll_int(first)
        THEN [error |-> "ValueError", val |-> address.val]
        ELSE IF int(first) # 127
        THEN [error |-> "ConfigError", val |-> address.val]
        ELSE [error |-> "none", val |-> address.val]

\* The branches of the loop over tunnel_config.items() that the files of
\* the model reach: what the key/value pair becomes in cleaned_tunnel, or
\* the ConfigError.  (reverse, user, key, ssh_options and server are never
\* set by these files.)
Cleaned(key, val) ==
    IF key \in {"remote_port", "local_port", "ssh_port"}
    THEN IF ~ll_int(val) THEN [error |-> "ConfigError", val |-> val]
         ELSE IF PortOutOfRange(int(val))
         THEN [error |-> "ConfigError", val |-> val]
         ELSE [error |-> "none", val |-> int(val)]
    ELSE IF key = "local_address"
    THEN LocalAddress(val)
    ELSE IF key \in {"group_name", "tunnel_name", "remote_server"}
    THEN [error |-> "none", val |-> val]
    ELSE [error |-> "ConfigError", val |-> val]

DEFAULT_SSH_PORT == 22

\* cleaned_tunnel = {...}: the defaults of a field set
Defaults(group) ==
    [reverse |-> FALSE,
     local_address |-> Dotted(<<Str("127"), Str("1"), Str("1"), Str("1")>>),
     ssh_options |-> <<Str("-n"), Str("-o"), Str("ServerAliveInterval=60"),
                       Str("-o"), Str("ServerAliveCountMax=3")>>,
     ssh_user |-> None,
     ssh_key |-> None,
     ssh_port |-> DEFAULT_SSH_PORT,
     group_name |-> group,
     remote_server |-> group]

\* cleaned_tunnel after the loop over the keys and the test of the required
\* keys: the defaults, then every key of the field set
CleanedTunnel(group, tunnel_config) ==
    LET defaults == Defaults(group)
        fields == [k \in DOMAIN defaults \cup DOMAIN tunnel_config |->
                      IF k \in DOMAIN tunnel_config
                      THEN Cleaned(k, tunnel_config[k]).val
                      ELSE defaults[k]]
        invalid == \E k \in DOMAIN tunnel_config :
                       Cleaned(k, tunnel_config[k]).error # "none"
        missing == \E required_key \in {"remote_port", "local_port"} :
                       required_key \notin DOMAIN fields
    IN  [error |-> IF invalid \/ missing THEN "ConfigError" ELSE "none",
         fields |-> fields]

\* socket.gethostbyname(conf_server) when it succeeds: an address that
\* stands for the name looked up ("" resolves to 0.0.0.0)
Address(conf_server) == <<"ip">> \o conf_server

\* Tunnel(cleaned_tunnel)
Tunnel(cleaned_tunnel, remote_address) ==
    [name |-> cleaned_tunnel["tunnel_name"],
     group_name |-> cleaned_tunnel["group_name"],
     remote_server |-> cleaned_tunnel["remote_server"],
     remote_address |-> remote_address,
     remote_port |-> cleaned_tunnel["remote_port"],
     local_address |-> cleaned_tunnel["local_address"],
     local_port |-> cleaned_tunnel["local_port"],
     ssh_options |-> cleaned_tunnel["ssh_options"],
     ssh_key |-> cleaned_tunnel["ssh_key"],
     ssh_user |-> cleaned_tunnel["ssh_user"],
     ssh_port |-> cleaned_tunnel["ssh_port"],
     is_reverse |-> cleaned_tunnel["reverse"]]

\* for group, tunnel_config_list in config.items():
\*     for tunnel_config in tunnel_config_list:
RECURSIVE FieldSets(_, _)
FieldSets(groups, tunnels) ==
    IF groups = <<>>
    THEN <<>>
    ELSE LET group == Head(groups)
         IN  [i \in 1..Len(tunnels[group]) |->
                 [group |-> group, tunnel_config |-> tunnels[group][i]]]
             \o FieldSets(Tail(groups), tunnels)

\* tunnels = TunnelConfig._check_config(config); results = []
BeginCheck ==
    /\ cfgPc = "analysed"
    /\ cfgPc' = "checking"
    /\ queue' = FieldSets(config.groups, config.tunnels)
    /\ results' = <<>>
    /\ UNCHANGED <<parser, config, includes, stack, self_tunnels, rejected>>
    /\ UNCHANGED <<supVars, sigVars, lookupVars, eqVars, launchVars>>

\* A validator that skips a field set it rejects.
RejectAndGoOn ==
    /\ rejected' = Append(rejected, Head(queue))
    /\ queue' = Tail(queue)
    /\ UNCHANGED <<cfgPc, results>>

\* raise ConfigError(...): _check_config, _parse_config and __init__ are left
Reject ==
    /\ rejected' = Append(rejected, Head(queue))
    /\ cfgPc' = "ConfigError"
    /\ UNCHANGED <<queue, results>>

\* One pass of the inner loop: validate a field set, resolve its server,
\* results.append(Tunnel(cleaned_tunnel))
CheckTunnel ==
    /\ cfgPc = "checking"
    /\ queue # <<>>
    /\ LET cleaned_tunnel ==
               CleanedTunnel(Head(queue).group, Head(queue).tunnel_config)
           conf_server == cleaned_tunnel.fields["remote_server"]
       IN  \E resolved \in BOOLEAN :
               IF cleaned_tunnel.error = "none" /\ resolved
               THEN /\ results' =
                          Append(results, Tunnel(cleaned_tunnel.fields,
                                                 Address(conf_server)))
                    /\ queue' = Tail(queue)
                    /\ UNCHANGED <<cfgPc, rejected>>
               ELSE Reject
    /\ UNCHANGED <<parser, config, includes, stack, self_tunnels>>
    /\ UNCHANGED <<supVars, sigVars, lookupVars, eqVars, launchVars>>

\* return results; return tunnels; self._tunnels = ...
Loaded ==
    /\ cfgPc = "checking"
    /\ queue = <<>>
    /\ cfgPc' = "loaded"
    /\ self_tunnels' = results
    /\ UNCHANGED <<parser, config, includes, stack, queue, results, rejected>>
    /\ UNCHANGED <<supVars, sigVars, lookupVars, eqVars, launchVars>>

\* Inputs of the load: two tunnel sections of a group and a group section,
\* each with a remote port, maybe a local port, and maybe one of the name
\* keys set to the empty string or the remote server set.
LoadNames == {Join(<<Str("g"), Str("t")>>), Join(<<Str("g"), <<>>>>), Str("h")}
PortOptions ==
    {Update(remote, local) :
        remote \in [{"remote_port"} -> {Str("0"), Str("1")}],
        local \in OptionMaps({"local_port"}, {Str("1")})}
NameOptions ==
    OptionMaps({"remote_server"}, {Str("s")})
        \cup UNION {[{key} -> {<<>>}] :
                       key \in {"tunnel_name", "group_name", "remote_server"}}
LoadOptions == {Update(ports, names) : ports \in PortOptions,
                                       names \in NameOptions}

InitLoad ==
    /\ argAll = FALSE
    /\ argTunnel = TRUE
    /\ InitSupervisor
    /\ InitSignals
    /\ InitLookupIdle
    /\ IsSectionList(parser, LoadNames, LoadOptions)
    /\ config = NoTunnels
    /\ cfgPc = "parsed"
    /\ includes = <<>>
    /\ stack = <<>>
    /\ InitCheckIdle

NextLoad == Analyse \/ BeginCheck \/ CheckTunnel \/ Loaded

SpecLoad == InitLoad /\ [][NextLoad]_vars

\* Inputs of the validator alone: one tunnel section whose options are any
\* choice of the three ports and of the local address
PortValues ==
    {Str("-1"), Str("0"), Str("1"), Str("65534"), Str("65535"), Str("abc")}
LocalValues ==
    {Dotted(<<Str("127"), Str("0"), Str("0"), Str("5")>>),
     Dotted(<<Str("10"), Str("0"), Str("0"), Str("1")>>),
     Dotted(<<Str("127"), Str("1")>>),
     Str("127"),
     Str("localhost"), Str("lan"), Str("nohost")}
ValidateOptions ==
    {Update(ports, local) :
        ports \in OptionMaps({"remote_port", "local_port", "ssh_port"},
                             PortValues),
        local \in OptionMaps({"local_address"}, LocalValues)}

InitValidate ==
    /\ argAll = FALSE
    /\ argTunnel = TRUE
    /\ InitSupervisor
    /\ InitSignals
    /\ InitLookupIdle
    /\ \E options \in ValidateOptions :
           parser = <<[name |-> Join(<<Str("g"), Str("t")>>),
                       options |-> options]>>
    /\ config = NoTunnels
    /\ cfgPc = "parsed"
    /\ includes = <<>>
    /\ stack = <<>>
    /\ InitCheckIdle

NextValidate == Analyse \/ BeginCheck \/ CheckTunnel \/ Loaded

SpecValidate == InitValidate /\ [][NextValidate]_vars

\* ------------------------------------------ Tunnel.generate_autossh_args
\* getpass.getuser()
getuser == Str("user")

\* which("autossh") when it succeeds
autossh_path == Str("/usr/bin/autossh")

\* The arguments of the helper for one Tunnel.  A string is a sequence of
\* tokens, so a + b is a \o b.
generate_autossh_args(tunnel) ==
    LET user == IF tunnel.ssh_user # None THEN tunnel.ssh_user ELSE getuser
        key == IF tunnel.ssh_key # None
               THEN <<Str("-i"), tunnel.ssh_key>>
               ELSE <<>>
        forward ==
            IF tunnel.is_reverse
            THEN <<Str("-R"),
                   tunnel.remote_server \o <<":">> \o to_str(tunnel.remote_port)
                       \o <<":">> \o tunnel.local_address
                       \o <<":">> \o to_str(tunnel.local_port)>>
            ELSE <<Str("-L"),
                   tunnel.local_address \o <<":">> \o to_str(tunnel.local_port)
                       \o <<":">> \o tunnel.remote_server
                       \o <<":">> \o to_str(tunnel.remote_port)>>
    IN  <<Str("-M"), Str("0"), Str("-p"), to_str(tunnel.ssh_port),
          Str("-T"), Str("-N")>>
            \o tunnel.ssh_options
            \o key
            \o <<Str("-l"), user, user \o <<"@">> \o tunnel.remote_server>>
            \o forward

\* cmd = [autossh_path]; cmd.extend(tunnel.generate_autossh_args()) and
\* subprocess.Popen(cmd, ...), for the tunnels in registry order
Launch ==
    /\ cfgPc = "loaded"
    /\ Len(launched) < Len(self_tunnels)
    /\ launched' =
           Append(launched,
                  <<autossh_path>>
                      \o generate_autossh_args(self_tunnels[Len(launched) + 1]))
    /\ UNCHANGED connected
    /\ UNCHANGED <<supVars, sigVars, lookupVars, cfgVars, eqVars>>

\* The host of the destination argument user@host of a command line
HostOf(cmd) ==
    LET destination == CHOOSE arg \in Range(cmd) :
                           \E i \in 1..Len(arg) : arg[i] = "@"
        at == CHOOSE i \in 1..Len(destination) : destination[i] = "@"
    IN  SubSeq(destination, at + 1, Len(destination))

\* What a name resolves to when the helper looks it up: the address it had
\* when the configuration was loaded, or another one if the name service
\* has changed since.  An address is its own resolution.
IsAddress(host) == host # <<>> /\ host[1] \in {"ip", "moved"}
Resolutions(host) ==
    IF IsAddress(host) THEN {host} ELSE {Address(host), <<"moved">> \o host}

\* The helper started by Popen opens its connection to the host named on
\* its command line.
HelperConnects ==
    /\ Len(connected) < Len(launched)
    /\ \E address \in Resolutions(HostOf(launched[Len(connected) + 1])) :
           connected' = Append(connected, address)
    /\ UNCHANGED launched
    /\ UNCHANGED <<supVars, sigVars, lookupVars, cfgVars, eqVars>>

NextLaunch == NextLoad \/ Launch \/ HelperConnects

SpecLaunch == InitLoad /\ [][NextLaunch]_vars

\* ------------------------------------------ TunnelConfig._pre_process_file
\* Files are numbered; file 1 is the one given to TunnelConfig.  A call of
\* _pre_process_file is a frame: its file and the included files it has not
\* expanded yet.  The function keeps no record of the files being expanded.
Files == 1..NumFiles

\* What ends a recursion that is too deep: the interpreter refuses the call
\* (RuntimeError, maximum recursion depth exceeded) or open() finds no file
\* descriptor left (IOError); each frame keeps its file open.
ResourceErrors == {"RuntimeError", "IOError"}

\* result += TunnelConfig._pre_process_file(sub_filename.strip(), ...): one
\* call deeper, or the exception that unwinds every frame.
Include ==
    /\ cfgPc = "preprocess"
    /\ stack # <<>>
    /\ LET top == stack[Len(stack)]
       IN  \E sub_filename \in top.todo :
               IF Len(stack) >= RecursionLimit
               THEN /\ \E exc \in ResourceErrors : cfgPc' = Reraised(exc)
                    /\ stack' = <<>>
               ELSE /\ stack' =
                          Append([stack EXCEPT ![Len(stack)].todo =
                                      @ \ {sub_filename}],
                                 [file |-> sub_filename,
                                  todo |-> includes[sub_filename]])
                    /\ UNCHANGED cfgPc
    /\ UNCHANGED <<parser, config, includes, checkVars>>
    /\ UNCHANGED <<supVars, sigVars, lookupVars, eqVars, launchVars>>

\* The last line of a file was read: check_ini_content(result); return result
EndOfFile ==
    /\ cfgPc = "preprocess"
    /\ stack # <<>>
    /\ stack[Len(stack)].todo = {}
    /\ stack' = SubSeq(stack, 1, Len(stack) - 1)
    /\ cfgPc' = IF Len(stack) = 1 THEN "preprocessed" ELSE cfgPc
    /\ UNCHANGED <<parser, config, includes, checkVars>>
    /\ UNCHANGED <<supVars, sigVars, lookupVars, eqVars, launchVars>>

\* _parse_config calls _pre_process_file(config_file) on any set of files.
InitInclude ==
    /\ argAll = FALSE
    /\ argTunnel = TRUE
    /\ InitSupervisor
    /\ InitSignals
    /\ InitLookupIdle
    /\ parser = <<>>
    /\ config = NoTunnels
    /\ cfgPc = "preprocess"
    /\ includes \in [Files -> SUBSET Files]
    /\ stack = <<[file |-> 1, todo |-> includes[1]]>>
    /\ InitCheckIdle

NextInclude == Include \/ EndOfFile

\* The main thread runs the recursion without waiting for anything.
SpecInclude == InitInclude /\ [][NextInclude]_vars /\ WF_vars(NextInclude)

\* ------------------------------------------------ Tunnel.__eq__, __ne__
\* obj.attr: the value of the property, or AttributeError when the class
\* has no such property
HasAttr(obj, attr) == attr \in DOMAIN obj

\* return (self._remote_address, self._remote_port)
\*            == (other.remote_adress, other.remote_port)
Eq(self, other) ==
    IF ~HasAttr(other, "remote_adress") \/ ~HasAttr(other, "remote_port")
    THEN "AttributeError"
    ELSE IF <<self.remote_address, self.remote_port>>
                = <<other["remote_adress"], other.remote_port>>
    THEN "True"
    ELSE "False"

\* return not self.__eq__(other)
Ne(self, other) ==
    LET eq == Eq(self, other)
    IN  IF eq = "AttributeError" THEN eq
        ELSE IF eq = "True" THEN "False" ELSE "True"

NotCompared == [eq |-> "none", ne |-> "none"]

\* a == b, then a != b
Compare ==
    /\ comparison = NotCompared
    /\ operands # <<>>
    /\ comparison' = [eq |-> Eq(operands[1], operands[2]),
                      ne |-> Ne(operands[1], operands[2])]
    /\ UNCHANGED operands
    /\ UNCHANGED <<supVars, sigVars, lookupVars, cfgVars, launchVars>>

\* Tunnels as a load builds them: two names, two servers, two ports
LoadedTunnels ==
    {Tunnel(Update(Defaults(Str("g")),
                   [tunnel_name |-> Str(name), remote_server |-> Str(server),
                    remote_port |-> port, local_port |-> port]),
            Address(Str(server))) :
        name \in {"t", "u"}, server \in {"r", "s"}, port \in {1, 65534}}

InitEq ==
    /\ argAll = FALSE
    /\ argTunnel = TRUE
    /\ InitSupervisor
    /\ InitSignals
    /\ InitLookupIdle
    /\ parser = <<>>
    /\ config = NoTunnels
    /\ cfgPc = "idle"
    /\ includes = <<>>
    /\ stack = <<>>
    /\ queue = <<>>
    /\ results = <<>>
    /\ self_tunnels = <<>>
    /\ rejected = <<>>
    /\ InitLaunchIdle
    /\ operands \in LoadedTunnels \X LoadedTunnels
    /\ comparison = NotCompared

NextEq == Compare

SpecEq == InitEq /\ [][NextEq]_vars

\* ------------------------------------------------------------ specification
Next ==
    \/ LoadConfig
    \/ CheckArgs
    \/ RunGetTunnels
    \/ Which
    \/ OutPipe
    \/ ErrPipe
    \/ Popen
    \/ Store
    \/ \E t \in Tunnels : Poll(t)
    \/ TermLoop
    \/ WaitCond
    \/ \E t \in Tunnels : WaitFor(t)
    \/ DeadlineExpires
    \/ KillLoop
    \/ CloseErr
    \/ CloseOut
    \/ MainEnd
    \/ \E p \in Pipes : LogPipeDel(p)
    \/ \E t \in Tunnels, code \in ExitCodes : HelperExit(t, code)
    \/ \E now \in Times : Signal(now)

Spec == Init /\ [][Next]_vars

\* The handler alone, fed any sequence of signal times up to five seconds.
InitSignal ==
    /\ argAll = FALSE
    /\ argTunnel = TRUE
    /\ InitSupervisor
    /\ InitSignals
    /\ InitLookupIdle
    /\ InitConfigIdle

HandlerOnly(now) ==
    /\ lastOutcome # "os._exit"
    /\ Len(sigTimes) < MaxSigSeq
    /\ ClockOk(now)
    /\ OnSignal(now)
    /\ UNCHANGED <<supVars, lookupVars, cfgVars, eqVars, launchVars>>

NextSignal == \E now \in 0..SigHorizon : HandlerOnly(now)

SpecSignal == InitSignal /\ [][NextSignal]_vars


\* ==================================================================== claims
\* run() has ended (by returning or raising); the hard exit does not count.
RunFinished == pc \in {"main_end", "exited"} /\ ~hardExit /\ shutdownStarted

C2_TermBeforeKill == killSent # {} => shutdownTracked \subseteq termSent

\* C2 witness: a process was killed in a shutdown that tracked two processes.
C2_Witness == killSent # {} /\ Cardinality(shutdownTracked) >= 2

\* C3 (as claimed): once shutdown has started, on every path through it
\* (further interrupts included), every process still tracked when run() ends
\* has been sent SIGKILL.
C3_SurvivorsAreKilled == RunFinished => proc_dict \subseteq killSent

\* C4 (as claimed): when run() finishes, every helper it started has been
\* observed exited or has been sent SIGTERM or SIGKILL.
C4_NoHelperLeftUnsignalled ==
    (pc \in {"main_end", "exited"} /\ ~hardExit) =>
        \A t \in started :
            returncode[t] # None \/ t \in termSent \cup killSent

\* The finally block of run() ran every one of its steps.
ShutdownCompleted ==
    /\ shutdownTracked \subseteq termSent
    /\ proc_dict \subseteq killSent
    /\ \A p \in Pipes : pipe[p] # "none" => p \in closedBySupervisor

\* C5 (as claimed): the first two interrupts act as one stop: the second one
\* never hard-exits and does not cut short the shutdown the first one started.
C5_TwoInterruptsOneStop ==
    (Len(sigTimes) = 2 /\ cause = "KeyboardInterrupt"
        /\ pc \in {"main_end", "exited"}) =>
            (~hardExit /\ ShutdownCompleted)

\* C6: the handler hard-exits on a signal iff at least three signals were
\* received and this one comes less than one second after the
\* third-most-recent one; otherwise it raises KeyboardInterrupt.
C6_HardExitIff ==
    LET n == Len(sigTimes)
    IN  n > 0 =>
          lastOutcome =
            IF n >= 3 /\ sigTimes[n] - sigTimes[n - 2] < 1 * TicksPerSecond
            THEN "os._exit"
            ELSE "KeyboardInterrupt"

\* C6 witness: a fourth signal hard-exits because the last three fit in one
\* second although the first signal is older; before it, three signals spread
\* over five seconds did not.
C6_Witness ==
    /\ Len(sigTimes) = 4
    /\ lastOutcome = "os._exit"
    /\ sigTimes[3] - sigTimes[1] = 5 * TicksPerSecond

\* C7 (as claimed): if shutdown was triggered by a helper exiting, the error
\* that reaches the caller is the original one and the tool exits with 1,
\* whatever happens during the shutdown.
C7_OriginalErrorSurvivesShutdown ==
    (cause = "RuntimeError" /\ exitSeen # {} /\ pc = "exited"
        /\ ~hardExit /\ ~uncaught) =>
            (pending = "RuntimeError" /\ exitCode = 1)

C9_ClosedExactlyOnce ==
    \A p \in Pipes :
        /\ closeCalls[p] <= 1
        /\ closeCalls[p] > 0 => (p \in closedBySupervisor /\ pc \notin TryPcs)
        /\ (pc \in {"main_end", "exited"} /\ ~hardExit /\ pipe[p] # "none")
              => closeCalls[p] = 1


\* The identifier equals the name, group name, remote server or resolved
\* address of some tunnel of the registry.
MatchesSomeTunnel(identifier) ==
    \E i \in 1..Len(all_tunnels) :
        identifier \in {all_tunnels[i].name, all_tunnels[i].group_name,
                        all_tunnels[i].remote_server,
                        all_tunnels[i].remote_address}

\* C10 (as claimed): get_tunnels(ids) fails iff some requested identifier
\* matches no tunnel, and the error lists exactly those identifiers.
C10_FailsIffUnmatched ==
    LET unmatched(identifier) == ~MatchesSomeTunnel(identifier)
    IN  lookupPc \in {"returned", "raised"} =>
          /\ lookupPc = "raised" <=> SelectSeq(ids, unmatched) # <<>>
          /\ lookupPc = "raised" => not_found = SelectSeq(ids, unmatched)

\* The tunnel carries one of the requested identifiers as its name, group
\* name, remote server or resolved address.
CarriesRequested(tunnel) ==
    \/ tunnel.name \in Range(ids)
    \/ tunnel.group_name \in Range(ids)
    \/ tunnel.remote_server \in Range(ids)
    \/ tunnel.remote_address \in Range(ids)

\* C11: when get_tunnels(ids) returns, its result is exactly the tunnels of
\* the registry whose name, group name, remote server or resolved address is
\* one of ids (each kind selects on its own), in registry order.
C11_ResultIsTheMatchingTunnels ==
    lookupPc = "returned" => result = SelectSeq(all_tunnels, CarriesRequested)

\* A successful call that selected one tunnel by its resolved address alone,
\* next to a registry tunnel it left out.
C11_Witness ==
    /\ lookupPc = "returned"
    /\ Len(result) < Len(all_tunnels)
    /\ \E i \in 1..Len(result) :
          /\ result[i].remote_address \in Range(ids)
          /\ result[i].name \notin Range(ids)
          /\ result[i].group_name \notin Range(ids)
          /\ result[i].remote_server \notin Range(ids)

\* ----------------------------------------------------- resolver claims
\* The sections "group/..." of the parsed file, in file order; the group of a
\* section is what comes before its first "/".
Declared(group) ==
    LET of_group(section) ==
            /\ HasSlash(section.name)
            /\ ~IsCommon(section.name)
            /\ Split(section.name, 1)[1] = group
    IN  SelectSeq(parser, of_group)

\* The options of the section named exactly `group`, if the file has one.
OwnOptions(group) ==
    IF \E i \in 1..Len(parser) : parser[i].name = group
    THEN parser[CHOOSE i \in 1..Len(parser) : parser[i].name = group].options
    ELSE EmptyDict

\* The values set in the sections global and common.
CommonLayer == CommonFields(parser, EmptyDict)

\* The options the i-th entry of a group was declared with: those of its
\* "group/tunnel" section, none for a synthesized default tunnel.
EntryOptions(group, i) ==
    IF Declared(group) = <<>> THEN EmptyDict ELSE Declared(group)[i].options

\* C12 (as claimed): for every tunnel section group/tunnel and every key, the
\* resolved value is the tunnel section's if it sets the key, else the group
\* section's if that sets it, else the one of common/global: the merge is key
\* by key and a key that is not overridden keeps the less specific value.
C12_MostSpecificValueWins ==
    cfgPc = "analysed" =>
        \A group \in DOMAIN config.tunnels :
            \A i \in 1..Len(Declared(group)) :
                LET fields == config.tunnels[group][i]
                    tunnel == Declared(group)[i].options
                    own == OwnOptions(group)
                IN  \A key \in DOMAIN tunnel \cup DOMAIN own
                                             \cup DOMAIN CommonLayer :
                        /\ key \in DOMAIN fields
                        /\ fields[key] =
                              IF key \in DOMAIN tunnel THEN tunnel[key]
                              ELSE IF key \in DOMAIN own THEN own[key]
                              ELSE CommonLayer[key]

\* C13 (as claimed): a key set only in common/global is present, with that
\* value, in the field set of every resolved tunnel, also of a tunnel whose
\* group has no section of its own.
C13_CommonReachesEveryTunnel ==
    cfgPc = "analysed" =>
        \A group \in DOMAIN config.tunnels :
            \A i \in 1..Len(config.tunnels[group]) :
                \A key \in DOMAIN CommonLayer :
                    (/\ key \notin DOMAIN OwnOptions(group)
                     /\ key \notin DOMAIN EntryOptions(group, i))
                        => /\ key \in DOMAIN config.tunnels[group][i]
                           /\ config.tunnels[group][i][key] = CommonLayer[key]

\* The merged field set of a group section: common/global, then its own.
Merged(group) == Update(CommonLayer, OwnOptions(group))

\* The names of the group sections of the parsed file.
GroupSections ==
    {parser[i].name : i \in {j \in 1..Len(parser) :
        ~IsCommon(parser[j].name) /\ ~HasSlash(parser[j].name)}}

\* C14: a group section with a non-empty merged field set and no group/tunnel
\* section yields exactly one entry, named default_tunnel, with the group's
\* fields; a group with group/tunnel sections yields one entry per such
\* section and no synthesized default_tunnel.
C14_DefaultTunnelOnlyWithoutTunnels ==
    cfgPc = "analysed" =>
        /\ \A group \in GroupSections :
              (Declared(group) = <<>> /\ DOMAIN Merged(group) # {}) =>
                  /\ group \in DOMAIN config.tunnels
                  /\ Len(config.tunnels[group]) = 1
                  /\ config.tunnels[group][1] =
                        Put(Merged(group), "tunnel_name",
                            Str("default_tunnel"))
        /\ \A group \in DOMAIN config.tunnels :
              Declared(group) # <<>> =>
                  /\ Len(config.tunnels[group]) = Len(Declared(group))
                  /\ \A i \in 1..Len(Declared(group)) :
                        config.tunnels[group][i]["tunnel_name"] =
                            Split(Declared(group)[i].name, 1)[2]

\* A group section with fields and a group/tunnel section of that group were
\* resolved: the group has the declared tunnel and no default tunnel.
C14_Witness ==
    /\ cfgPc = "analysed"
    /\ \E group \in GroupSections :
          /\ Declared(group) # <<>>
          /\ DOMAIN OwnOptions(group) # {}
          /\ Len(config.tunnels[group]) = 1
          /\ config.tunnels[group][1]["tunnel_name"] # Str("default_tunnel")

\* C15 (as claimed): a section name is split on its first "/" only, so a
\* section a/b/c is tunnel b/c of group a and resolving it does not fail.
C15_SplitOnFirstSlashOnly ==
    /\ cfgPc # "ConfigError"
    /\ cfgPc = "analysed" =>
          \A i \in 1..Len(parser) :
              (HasSlash(parser[i].name) /\ ~IsCommon(parser[i].name)) =>
                  LET parts == Split(parser[i].name, 1)
                  IN  /\ parts[1] \in DOMAIN config.tunnels
                      /\ \E n \in 1..Len(config.tunnels[parts[1]]) :
                            config.tunnels[parts[1]][n]["tunnel_name"]
                                = parts[2]

\* C16 (as claimed): no group of the resolver's output is named global or
\* common, whatever the sections are named.
C16_NoCommonGroup ==
    cfgPc = "analysed" =>
        /\ \A group \in DOMAIN config.tunnels : ~IsCommon(group)
        /\ \A n \in 1..Len(config.groups) : ~IsCommon(config.groups[n])

\* ------------------------------------------------------ preprocessor claim
\* The files reached from file f through n include lines or fewer.
RECURSIVE Reach(_, _)
Reach(f, n) ==
    IF n = 0 THEN {}
    ELSE LET near == Reach(f, n - 1)
         IN  includes[f] \cup near \cup UNION {includes[g] : g \in near}

\* The loaded file reaches a file that includes itself, directly or through
\* other files.
IncludesItself ==
    \E f \in {1} \cup Reach(1, NumFiles) : f \in Reach(f, NumFiles)

\* C17: preprocessing a configuration file that includes itself, directly or
\* through other files, terminates and fails with ConfigError.
C17_IncludeCycleFails ==
    [](IncludesItself => <>(cfgPc = "ConfigError"))

\* Two files that include each other ended the load with ConfigError.
C17_Witness ==
    /\ cfgPc = "ConfigError"
    /\ 1 \notin includes[1]
    /\ \E f \in includes[1] : 1 \in includes[f]

\* ------------------------------------------------------------ load claims
\* C18: loading is all-or-nothing: once the validation of a field set has
\* failed, whatever its position, the construction has raised ConfigError and
\* no Tunnel is exposed; a TunnelConfig that was constructed holds one Tunnel
\* per field set.
C18_AllOrNothing ==
    /\ (rejected # <<>> \/ cfgPc = "ConfigError") =>
          (cfgPc = "ConfigError" /\ self_tunnels = <<>>)
    /\ cfgPc = "loaded" =>
          /\ rejected = <<>>
          /\ Len(self_tunnels) = Len(FieldSets(config.groups, config.tunnels))
    /\ cfgPc # "loaded" => self_tunnels = <<>>

\* The second field set failed after the first had given a Tunnel.
C18_Witness ==
    /\ cfgPc = "ConfigError"
    /\ results # <<>>
    /\ rejected # <<>>
    /\ self_tunnels = <<>>

\* C19 (as claimed): every Tunnel of a successful load has a non-empty name,
\* group name and remote server and remote/local ports in 1..65534.
C19_TunnelsAreWellFormed ==
    cfgPc = "loaded" =>
        \A i \in 1..Len(self_tunnels) :
            /\ self_tunnels[i].name # <<>>
            /\ self_tunnels[i].group_name # <<>>
            /\ self_tunnels[i].remote_server # <<>>
            /\ self_tunnels[i].remote_port \in 1..65534
            /\ self_tunnels[i].local_port \in 1..65534

\* ------------------------------------------------------- equality claim
\* C20 (as claimed): comparing two Tunnels never fails; a == b is true
\* exactly when they have the same (remote address, remote port) and a != b
\* is its negation.
C20_EqualByAddressAndPort ==
    comparison # NotCompared =>
        LET same == /\ operands[1].remote_address = operands[2].remote_address
                    /\ operands[1].remote_port = operands[2].remote_port
        IN  /\ comparison.eq = (IF same THEN "True" ELSE "False")
            /\ comparison.ne = (IF same THEN "False" ELSE "True")

\* ---------------------------------------------------------- launch claims
\* C21 (as claimed): the command line built for a tunnel carries the address
\* stored at load time, so the helper connects to that address whatever the
\* name resolves to at launch.
C21_LaunchUsesStoredAddress ==
    /\ \A i \in 1..Len(launched) :
           HostOf(launched[i]) = self_tunnels[i].remote_address
    /\ \A i \in 1..Len(connected) :
           connected[i] = self_tunnels[i].remote_address

\* C22 (as claimed): with --all and no TUNNEL, once the configuration is
\* loaded main() goes on to run() instead of returning (only a forced exit
\* of the signal handler ends it there), and when run() begins to poll it
\* has started a helper for every configured tunnel.
C22_AllRunsEveryTunnel ==
    /\ [][(pc = "check_args" /\ argAll /\ ~argTunnel /\ pc' = "exited")
             => hardExit']_vars
    /\ []((argAll /\ ~argTunnel /\ pc = "poll") => started = Tunnels)

\* -------------------------------------------------------- validator claims
\* What the specification accepts as a port: text that reads as an integer
\* of 1..65534
IsPortText(val) ==
    /\ Len(val) = 1
    /\ val[1] \in DOMAIN Numeral
    /\ Numeral[val[1]] \in 1..65534
PortsAcceptable(tunnel_config) ==
    /\ \A key \in {"remote_port", "local_port", "ssh_port"} :
           key \in DOMAIN tunnel_config => IsPortText(tunnel_config[key])
    /\ {"remote_port", "local_port"} \subseteq DOMAIN tunnel_config
\* C23: validation passes a field set only if each of remote_port,
\* local_port and ssh_port it sets is integer text of 1..65534 and
\* remote_port and local_port are both set, and (local address left to its
\* default) it passes every such field set; a load that succeeded stored
\* the ports as these integers.
C23_PortsAcceptedIffInRange ==
    /\ (cfgPc = "checking" /\ queue # <<>>) =>
           LET tunnel_config == Head(queue).tunnel_config
               passed == CleanedTunnel(Head(queue).group,
                                       tunnel_config).error = "none"
           IN  /\ passed => PortsAcceptable(tunnel_config)
               /\ (PortsAcceptable(tunnel_config)
                       /\ "local_address" \notin DOMAIN tunnel_config)
                      => passed
    /\ (cfgPc = "ConfigError" /\ rejected = <<>>) => config.error # "none"
    /\ cfgPc = "loaded" =>
           /\ PortsAcceptable(parser[1].options)
           /\ \A i \in 1..Len(self_tunnels) :
                  /\ self_tunnels[i].remote_port
                         = Numeral[parser[1].options["remote_port"][1]]
                  /\ self_tunnels[i].local_port
                         = Numeral[parser[1].options["local_port"][1]]
                  /\ self_tunnels[i].ssh_port \in 1..65534

\* A load that accepted the two ends of the range, ssh_port included.
C23_Witness ==
    /\ cfgPc = "loaded"
    /\ Len(self_tunnels) = 1
    /\ self_tunnels[1].remote_port = 1
    /\ self_tunnels[1].local_port = 65534
    /\ self_tunnels[1].ssh_port = 65534

\* The address a string denotes lies in 127.0.0.0/8.
InLoopback(val) ==
    inet_aton(val).error = "none" /\ inet_aton(val).bytes[1] = 127

\* C24 (as claimed): every Tunnel of a successful load has its local address
\* in 127.0.0.0/8; a literal outside that range is rejected, 127.0.0.5 is
\* accepted, and a host name is accepted exactly when it resolves into the
\* range, the resolved address being the value stored.
C24_LocalAddressIsLoopback ==
    /\ cfgPc = "loaded" =>
           \A i \in 1..Len(self_tunnels) :
               InLoopback(self_tunnels[i].local_address)
    /\ (cfgPc = "checking" /\ queue # <<>>
            /\ "local_address" \in DOMAIN Head(queue).tunnel_config) =>
           LET val == Head(queue).tunnel_config["local_address"]
               outcome == LocalAddress(val)
               literal == inet_aton(val).error = "none"
           IN  /\ (literal /\ ~InLoopback(val)) => outcome.error # "none"
               /\ val = Dotted(<<Str("127"), Str("0"), Str("0"), Str("5")>>)
                      => outcome.error = "none"
               /\ ~literal =>
                      /\ outcome.error = "none"
                             <=> (val \in DOMAIN Hosts /\ InLoopback(Hosts[val]))
                      /\ outcome.error = "none" => outcome.val = Hosts[val]

\* ------------------------------------------------------ supervision claims
\* Helpers a liveness check has reported exited.
Observed == {t \in Tunnels : returncode[t] # None}

\* C25: a helper is started only by the launch loop and only while no
\* helper has been observed exited; once run() polls, or is in its finally
\* block, or has been left, it never comes back to the launch loop.
C25_NoStartAfterObservedExit ==
    /\ [][(started' # started \/ (pc = "popen" /\ pc' = "store"))
             => (pc = "popen" /\ Observed = {} /\ exitSeen = {})]_vars
    /\ [][(pc \in ({"poll", "main_end", "exited"} \cup FinallyPcs))
             => (pc' \notin {"popen", "store"})]_vars

\* Every helper was started, one was then observed exited, and run() went
\* through its shutdown up to the closing of the pipes.
C25_Witness ==
    /\ started = Tunnels
    /\ exitSeen # {}
    /\ pc = "close_out"

\* Nothing of run()'s try block has happened: no pipe exists or was closed,
\* no helper was started or signalled.
NothingLaunched ==
    /\ \A p \in Pipes : pipe[p] = "none" /\ closeCalls[p] = 0
    /\ closedBySupervisor = {}
    /\ started = {}
    /\ proc_dict = {}
    /\ termSent = {}
    /\ killSent = {}

\* C26: when which("autossh") fails, run() is left with a RuntimeError and
\* nothing launched; from then on no pipe is created or closed and no
\* helper is started or signalled, and the tool exits with code 1.
C26_MissingHelperFailsEarly ==
    /\ [][(pc = "which" /\ pc' \notin {"which", "out_pipe"} /\ ~hardExit'
              /\ pending' # "KeyboardInterrupt")
             => (pc' = "main_end" /\ pending' = "RuntimeError"
                    /\ failure' = "RuntimeError" /\ ~shutdownStarted'
                    /\ NothingLaunched')]_vars
    /\ []((failure = "RuntimeError" /\ ~shutdownStarted) =>
              /\ NothingLaunched
              /\ pc \in {"main_end", "exited"}
              /\ pc = "exited" => exitCode = 1)

\* The tool has exited after the lookup of the helper failed.
C26_Witness ==
    /\ pc = "exited"
    /\ pending = "RuntimeError"
    /\ failure = "RuntimeError"
    /\ ~shutdownStarted
    /\ exitCode = 1
    /\ NothingLaunched

\* C27: a helper leaves proc_dict only in a step of the polling loop or of
\* the shutdown wait whose liveness check returned its exit code; it is
\* never tracked again; SIGTERM and SIGKILL go only to helpers that are in
\* proc_dict when they are sent, and SIGKILL only in the loop that follows
\* the wait.
C27_OnlyTrackedAreSignalled ==
    /\ [][(\A t \in proc_dict \ proc_dict' :
              /\ pc \in {"poll", "wait_for"}
              /\ exitStatus[t] # None
              /\ returncode'[t] = exitStatus[t])]_vars
    /\ [][(\A t \in proc_dict' \ proc_dict :
              pc = "store" /\ returncode[t] = None)]_vars
    /\ [][(\A t \in (termSent' \ termSent) \cup (killSent' \ killSent) :
              t \in proc_dict /\ t \in proc_dict')]_vars
    /\ [][(killSent' # killSent => pc = "kill")]_vars
    /\ [](pc = "kill" => cursor \subseteq proc_dict)

\* After the wait one helper had been removed on its exit code, untouched by
\* SIGKILL, and another, still tracked, was killed.
C27_Witness ==
    /\ pc = "close_err"
    /\ killSent # {}
    /\ \E t \in started :
           /\ t \notin proc_dict
           /\ returncode[t] # None
           /\ t \in termSent
           /\ t \notin killSent

\* C28 (as claimed): when the start of the helper of tunnel k has failed and
\* run() has been left (a forced exit of the signal handler aside), the
\* helpers of tunnels 1..k-1, and no other, were started, all of them were
\* sent SIGTERM, those still tracked after the wait were sent SIGKILL, both
\* pipes were closed by run(), and the start error is the one that reached
\* main().
C28_StartFailureShutsDown ==
    (cause = "OSError" /\ pc \in {"main_end", "exited"} /\ ~hardExit) =>
        /\ started = 1..(next - 1)
        /\ shutdownTracked = started
        /\ started \subseteq termSent
        /\ proc_dict \subseteq killSent
        /\ closedBySupervisor = Pipes
        /\ uncaught \/ pending = "OSError"
        /\ pc = "exited" => exitCode = 1

\* ------------------------------------------------- lookup order claim
\* Positions of the registry whose tunnel carries a requested identifier
MatchingPositions ==
    {i \in 1..Len(all_tunnels) : CarriesRequested(all_tunnels[i])}

\* C29: when get_tunnels(ids) returns, the result lists the matching
\* registry positions in increasing order, each one once, whatever the order
\* of ids and however many of them match the same tunnel.
C29_EachMatchOnceInRegistryOrder ==
    lookupPc = "returned" =>
        \E at \in [1..Len(result) -> 1..Len(all_tunnels)] :
            /\ \A j \in 1..Len(result) : result[j] = all_tunnels[at[j]]
            /\ \A j, k \in 1..Len(result) : j < k => at[j] < at[k]
            /\ {at[j] : j \in 1..Len(result)} = MatchingPositions

\* Two different identifiers, given in the order opposite to the registry's,
\* the first tunnel matching both of them.
C29_Witness ==
    /\ lookupPc = "returned"
    /\ Len(ids) = 2
    /\ ids[1] # ids[2]
    /\ Len(result) = 2
    /\ result[1].name = ids[2]
    /\ result[1].group_name = ids[1]
    /\ result[2].name = ids[1]
    /\ result[2].name # result[1].name

\* ------------------------------------------------- resolver order claim
\* The layer of a section: the common layer, the layer of a group, or the
\* tunnel sections of a group.
Layer(section) ==
    IF IsCommon(section.name)
    THEN [kind |-> "common", group |-> <<>>]
    ELSE IF HasSlash(section.name)
    THEN [kind |-> "tunnel", group |-> Split(section.name, 1)[1]]
    ELSE [kind |-> "group", group |-> section.name]

\* The orders of the sections of the file that keep the sections of one
\* layer in the order they have in the file
Reorderings ==
    {p \in [1..Len(parser) -> 1..Len(parser)] :
        /\ \A i, j \in 1..Len(parser) : p[i] = p[j] => i = j
        /\ \A i, j \in 1..Len(parser) :
               (i < j /\ Layer(parser[p[i]]) = Layer(parser[p[j]]))
                   => p[i] < p[j]}

\* C30: the field sets computed for the file are those computed for any
\* reordering of its sections that keeps the order inside each layer:
\* same groups, same tunnel field sets in the same order inside each group,
\* same failure.
C30_LayerOrderIsIrrelevant ==
    cfgPc \in {"analysed", "ConfigError"} =>
        \A p \in Reorderings :
            LET reordered ==
                    AnalyseConfig([i \in 1..Len(parser) |-> parser[p[i]]])
            IN  /\ reordered.error = config.error
                /\ config.error = "none" => reordered.tunnels = config.tunnels

\* The tunnel section comes first in the file and the tunnel has a key that
\* only the group section, declared after it, sets.
C30_Witness ==
    /\ cfgPc = "analysed"
    /\ Len(parser) = 2
    /\ parser[1].name = Join(<<Str("g"), Str("t")>>)
    /\ parser[2].name = Str("g")
    /\ "k" \in DOMAIN parser[2].options
    /\ "k" \notin DOMAIN parser[1].options
    /\ config.tunnels[Str("g")][1]["k"] = parser[2].options["k"]

====
